---- MODULE Spec2Model ----
(***************************************************************************)
(* Model of PythonExecutor (src/app/services/python_executor.py).          *)
(*                                                                         *)
(* The executor runs on one asyncio event loop.  A coroutine gives up the  *)
(* loop only at `await websocket.send_text(...)`; everything between two   *)
(* sends is one atomic segment.  process.join(timeout=...) and             *)
(* result_queue.get(timeout=...) are synchronous: while a coroutine sits   *)
(* in one of them the variable `blocked` names it and no other coroutine   *)
(* takes a step; only the clock and the child processes move.              *)
(*                                                                         *)
(* One execute_and_stream call is modelled per element of Execs (the call, *)
(* its child process and its sink share the name), one stop_execution call *)
(* per element of Stoppers.                                                *)
(***************************************************************************)
EXTENDS Integers, Sequences, FiniteSets, TLC

Execs == {"A", "B"}
Stoppers == {"S1", "S2"}
Coroutines == Execs \cup Stoppers
None == "none"
Earlier(c, d) == <<c, d>> \in {<<"A", "B">>, <<"S1", "S2">>}

\* ---- time -------------------------------------------------------------
\* The clock counts milliseconds.  It advances by whole seconds, up to
\* MaxSeconds, and at most once by a single millisecond.
MsPerSecond == 1000
Timeout == 1
GraceSeconds == 2
QueueGetSeconds == 1
MaxSeconds == 7
Pid == 454

\* ---- text -------------------------------------------------------------
NL == "\n"
SP == " "

RECURSIVE FirstNewline(_, _)
FirstNewline(s, i) ==
    IF i > Len(s) THEN 0
    ELSE IF s[i] = NL THEN i
    ELSE FirstNewline(s, i + 1)

\* str.splitlines(): no empty last line after a final newline
RECURSIVE SplitLines(_)
SplitLines(s) ==
    IF s = <<>> THEN <<>>
    ELSE LET i == FirstNewline(s, 1) IN
         IF i = 0 THEN <<s>>
         ELSE <<SubSeq(s, 1, i - 1)>> \o SplitLines(SubSeq(s, i + 1, Len(s)))

\* str.strip(): drop leading and trailing whitespace
RECURSIVE Strip(_)
Strip(line) ==
    IF line = <<>> THEN <<>>
    ELSE IF Head(line) = SP THEN Strip(Tail(line))
    ELSE IF line[Len(line)] = SP THEN Strip(SubSeq(line, 1, Len(line) - 1))
    ELSE line

\* ---- the submitted code, as what execute_code_in_process does with it --
\*   ok        runs to its end; the result record carries stdout and stderr
\*   okbig     runs to its end; its result record is larger than the pipe of
\*             the queue holds, so the process cannot exit before the
\*             parent reads the queue
\*   raise     raises an Exception; the result record has status error
\*   noresult  leaves the process without a result record (SystemExit)
\*   loop      never ends by itself; dies on SIGTERM
\*   stubborn  never ends by itself and ignores SIGTERM
Programs ==
    { [kind |-> "ok", stdout |-> <<"a", NL, NL, SP, NL, "b">>,
       stderr |-> <<"e", NL>>],
      [kind |-> "okbig", stdout |-> <<"a", NL>>, stderr |-> <<>>],
      [kind |-> "raise", stdout |-> <<"a", NL>>, stderr |-> <<>>],
      [kind |-> "noresult", stdout |-> <<"a", NL>>, stderr |-> <<>>],
      [kind |-> "loop", stdout |-> <<"a", NL>>, stderr |-> <<>>],
      [kind |-> "stubborn", stdout |-> <<>>, stderr |-> <<>>] }

NoProgram == [kind |-> None, stdout |-> <<>>, stderr |-> <<>>]
NoResult == [status |-> None, stdout |-> <<>>, stderr |-> <<>>]

\* the record execute_code_in_process puts on the queue
execute_code_in_process(prog) ==
    IF prog.kind \in {"ok", "okbig"}
    THEN [status |-> "success", stdout |-> prog.stdout, stderr |-> prog.stderr]
    ELSE [status |-> "error", stdout |-> <<>>, stderr |-> <<>>]

\* a fallback record that reports success
QueueEmptySuccess == [status |-> "success", stdout |-> <<>>, stderr |-> <<>>]

\* the record execute_and_stream builds when the queue stays empty
QueueEmptyResult == [status |-> "error", stdout |-> <<>>, stderr |-> <<>>]

\* ---- identifiers and events -------------------------------------------
NoId == <<"no_id">>
NonexistentId == <<"nonexistent_id">>

\* f"exec_{int(time.time() * 1000)}_{os.getpid()}"
MakeExecutionId(t, pid) == <<"exec", t, pid>>

TerminalTypes == {"execution_complete", "timeout", "error"}

\* `by` is the execution on whose behalf the event was sent and `at` the
\* clock at the send of a timeout event (0 otherwise); neither is part of
\* the message.
Event(type, id, content, by, at) ==
    [type |-> type, execution_id |-> id, content |-> content, by |-> by, at |-> at]

\* a test that lets every line pass
AnyLine(line) == TRUE

\* lines 121/129: `if line.strip()`
NonBlank(line) == Strip(line) # <<>>

RECURSIVE LineEvents(_, _, _)
LineEvents(lines, tag, by) ==
    IF lines = <<>> THEN <<>>
    ELSE IF NonBlank(Head(lines))
         THEN <<Event(tag, NoId, Head(lines), by, 0)>>
                  \o LineEvents(Tail(lines), tag, by)
         ELSE LineEvents(Tail(lines), tag, by)

\* the stdout events, then the stderr events, of one result record
OutputEvents(res, by) ==
    LineEvents(SplitLines(res.stdout), "stdout", by)
        \o LineEvents(SplitLines(res.stderr), "stderr", by)

\* a completion that reports every result as execution_complete
CompletionTypeAlwaysComplete(res) == "execution_complete"

\* lines 135-145
CompletionType(res) ==
    IF res.status = "success" THEN "execution_complete" ELSE "error"

\* ---- registry ----------------------------------------------------------
\* a registration that stores nothing
RegisterNothing(reg, id, e) == reg

\* lines 88-93
Register(reg, id, e) ==
    [k \in DOMAIN reg \cup {id} |->
        IF k = id THEN [process |-> e, websocket |-> e] ELSE reg[k]]

Delete(reg, id) == [k \in DOMAIN reg \ {id} |-> reg[k]]

\* a finally-block of execute_and_stream that leaves the record behind
FinallyCleanupSkipped(reg, id) == reg

\* finally-block of execute_and_stream
FinallyCleanup(reg, id) == IF id \in DOMAIN reg THEN Delete(reg, id) ELSE reg

\* a finally-block of _force_terminate_process that leaves the record behind
ForceTerminateCleanupSkipped(reg, id) == reg

\* finally-block of _force_terminate_process
ForceTerminateCleanup(reg, id) == IF id \in DOMAIN reg THEN Delete(reg, id) ELSE reg

\* a list() that hands out the object it was given
ListSameObject(keys) ==
    [called |-> TRUE, same |-> TRUE, items |-> keys, mutated |-> FALSE]

\* list(...): a new list object holding the items.  `same` says whether the
\* object is the registry's own, `mutated` whether the caller has changed it.
List(keys) ==
    [called |-> TRUE, same |-> FALSE, items |-> keys, mutated |-> FALSE]

\* line 209: the keys of the registry
Keys(reg) == DOMAIN reg

\* lines 207-209 (the list as the set of its items)
get_active_executions(reg) == List(Keys(reg)).items

\* before the call there is no list
NoListing ==
    [called |-> FALSE, same |-> FALSE, items |-> {}, mutated |-> FALSE]

EmptyRegistry == [k \in {} |-> [process |-> None, websocket |-> None]]

VARIABLES
    now,               \* time.time() in milliseconds
    blocked,           \* the coroutine inside a synchronous wait, or None
    active_executions, \* self._active_executions
    pc,                \* where each coroutine stands
    execution_id,      \* execute_and_stream: the identifier it generated
    program,           \* execute_and_stream: what the submitted code does
    result,            \* execute_and_stream: the local `result`
    pos,               \* execute_and_stream: output events sent so far
    waitStart,         \* start of the coroutine's current/last timed wait
    proc,              \* child process: "new", "alive" or "exited"
    queue,             \* child process: has it put its result record
    ft,                \* _force_terminate_process: its locals
    ws,                \* per sink: the events sent to it, in order
    closed,            \* per sink: the connection is gone, sends raise
    faulted,           \* a fault of the environment has happened
    target,            \* stop_execution: the identifier argument
    forExec,           \* stop_execution: the execution the caller means
    reqDeadline,       \* stop_execution: requested in time: the deadline, else -1
    ret,               \* stop_execution: the returned value
    signalled,         \* <<on behalf of, process, signal>> of terminate()/kill()
    deleted,           \* <<on behalf of, process>> of registry deletions
    listing,           \* the list a get_active_executions() call returned
    unsignallable      \* the processes whose terminate() raises OSError

vars == <<now, blocked, active_executions, pc, execution_id, program, result,
          pos, waitStart, proc, queue, ft, ws, closed, faulted, target,
          forExec, reqDeadline, ret, signalled, deleted, listing,
          unsignallable>>

NoFt == [id |-> NoId, process |-> None, websocket |-> None]

Init ==
    /\ now = 0
    /\ blocked = None
    /\ active_executions = EmptyRegistry
    /\ pc = [c \in Coroutines |-> "idle"]
    /\ execution_id = [e \in Execs |-> NoId]
    /\ program = [e \in Execs |-> NoProgram]
    /\ result = [e \in Execs |-> NoResult]
    /\ pos = [e \in Execs |-> 0]
    /\ waitStart = [c \in Coroutines |-> 0]
    /\ proc = [e \in Execs |-> "new"]
    /\ queue = [e \in Execs |-> FALSE]
    /\ ft = [c \in Coroutines |-> NoFt]
    /\ ws = [e \in Execs |-> <<>>]
    /\ closed = [e \in Execs |-> FALSE]
    /\ faulted = FALSE
    /\ target = [s \in Stoppers |-> NoId]
    /\ forExec = [s \in Stoppers |-> None]
    /\ reqDeadline = [s \in Stoppers |-> -1]
    /\ ret = [s \in Stoppers |-> None]
    /\ signalled = {}
    /\ deleted = {}
    /\ listing = NoListing
    /\ unsignallable = {}

\* ---- helpers of the actions ---------------------------------------------
Send(sinks, w, ev) == [sinks EXCEPT ![w] = Append(@, ev)]

DeletedBy(reg, id, by) ==
    IF id \in DOMAIN reg THEN {<<by, reg[id].process>>} ELSE {}

DeadlineMs(c, seconds) == waitStart[c] + seconds * MsPerSecond

\* the synchronous wait of coroutine c has ended
WaitOver(c) ==
    \/ pc[c] = "join"
         /\ (proc[c] # "alive" \/ now >= DeadlineMs(c, Timeout))
    \/ pc[c] = "getq"
         /\ (queue[c] \/ now >= DeadlineMs(c, QueueGetSeconds))
    \/ pc[c] = "ft_join"
         /\ (proc[ft[c].process] # "alive" \/ now >= DeadlineMs(c, GraceSeconds))

\* ---- the clock -----------------------------------------------------------
\* Seconds pass while a coroutine sits in a timed wait, and not beyond the
\* wait's end before the waiting call has returned.  Between two calls of
\* execute_and_stream a millisecond may pass (the identifier is the only
\* reader of the clock at that resolution).
TickSecond ==
    /\ now \div MsPerSecond < MaxSeconds
    /\ blocked # None
    /\ ~WaitOver(blocked)
    /\ now' = now + MsPerSecond
    /\ UNCHANGED <<blocked, active_executions, pc, execution_id, program,
                   result, pos, waitStart, proc, queue, ft, ws, closed, faulted,
                   target, forExec, reqDeadline, ret, signalled, deleted>>
    /\ UNCHANGED listing
    /\ UNCHANGED unsignallable

TickMs ==
    /\ now % MsPerSecond = 0
    /\ blocked = None
    /\ \E e \in Execs : pc[e] = "idle"
    /\ \E e \in Execs : pc[e] # "idle"
    /\ now' = now + 1
    /\ UNCHANGED <<blocked, active_executions, pc, execution_id, program,
                   result, pos, waitStart, proc, queue, ft, ws, closed, faulted,
                   target, forExec, reqDeadline, ret, signalled, deleted>>
    /\ UNCHANGED listing
    /\ UNCHANGED unsignallable

\* ---- the child process ---------------------------------------------------
\* The submitted code reaches its end: the result record is on the queue
\* (unless the code left without one) and the process exits.
ProcExit(e) ==
    /\ proc[e] = "alive"
    /\ program[e].kind \in {"ok", "raise", "noresult"}
    /\ proc' = [proc EXCEPT ![e] = "exited"]
    /\ queue' = [queue EXCEPT ![e] = program[e].kind # "noresult"]
    /\ UNCHANGED <<now, blocked, active_executions, pc, execution_id, program,
                   result, pos, waitStart, ft, ws, closed, faulted, target, forExec,
                   reqDeadline, ret, signalled, deleted>>
    /\ UNCHANGED listing
    /\ UNCHANGED unsignallable

\* The submitted code reaches its end before the deadline with a result
\* record larger than the pipe: result_queue.put() hands it to the queue's
\* feeder thread, which stays blocked on the full pipe until the parent reads;
\* the process waits for that thread and does not exit.
QueuePutBlocks(e) ==
    /\ proc[e] = "alive"
    /\ program[e].kind = "okbig"
    /\ ~queue[e]
    /\ now < DeadlineMs(e, Timeout)
    /\ queue' = [queue EXCEPT ![e] = TRUE]
    /\ UNCHANGED <<now, blocked, active_executions, pc, execution_id, program,
                   result, pos, waitStart, proc, ft, ws, closed, faulted, target,
                   forExec, reqDeadline, ret, signalled, deleted>>
    /\ UNCHANGED listing
    /\ UNCHANGED unsignallable

\* process.terminate(): SIGTERM ends a live process unless the code ignores it
Terminate(procs, p) ==
    IF procs[p] = "alive" /\ program[p].kind # "stubborn"
    THEN [procs EXCEPT ![p] = "exited"] ELSE procs

\* a kill() that has no effect
KillIgnored(procs, p) == procs

\* process.kill(): SIGKILL ends a live process
Kill(procs, p) ==
    IF procs[p] = "alive" THEN [procs EXCEPT ![p] = "exited"] ELSE procs

\* ---- _force_terminate_process -------------------------------------------
\* Each operator gives the outcome of one segment of the coroutine as a
\* record: where it stands afterwards (`at`) and the values it leaves.
\*   ft_join     inside process.join(timeout=2)
\*   ft_sent     suspended in the send of the timeout event
\*   ft_err_sent suspended in the send of the error event
\*   returned    returned without doing anything
\*   raised      an exception left the method (after its finally-block)
FtOutcome(at, reg, procs, sinks, sig, del, locals) ==
    [at |-> at, reg |-> reg, proc |-> procs, ws |-> sinks,
     signalled |-> sig, deleted |-> del, ft |-> locals]

\* lines 179-197: send the timeout event; a send that raises is caught, the
\* error send raises again, the finally-block runs and the exception leaves
ForceTerminateSend(locals, by, procs, sig) ==
    IF closed[locals.websocket]
    THEN FtOutcome("raised", ForceTerminateCleanup(active_executions, locals.id),
                   procs, ws, sig,
                   deleted \cup DeletedBy(active_executions, locals.id, by), locals)
    ELSE FtOutcome("ft_sent", active_executions, procs,
                   Send(ws, locals.websocket,
                        Event("timeout", locals.id, <<>>, by, now)),
                   sig, deleted, locals)

\* process.terminate() raises: for a process never started (it has no
\* _popen), and for a live one when os.kill fails with OSError
TerminateRaises(procs, p) == procs[p] = "new" \/ p \in unsignallable

\* an is_alive() that always answers True
AlwaysAlive(procs, p) == TRUE

\* line 174: process.is_alive() after the grace wait
StillAliveAfterGrace(procs, p) == procs[p] = "alive"

\* lines 173-184: after join(timeout=2); SIGKILL ends the process, so the
\* join(timeout=1) after kill() returns at once
ForceTerminateAfterJoin(locals, by, procs, sig) ==
    IF StillAliveAfterGrace(procs, locals.process)
    THEN ForceTerminateSend(locals, by, Kill(procs, locals.process),
                            sig \cup {<<by, locals.process, "kill">>})
    ELSE ForceTerminateSend(locals, by, procs, sig)

\* lines 159-172: up to the first wait
ForceTerminateBegin(id, by) ==
    IF id \notin DOMAIN active_executions
    THEN FtOutcome("returned", active_executions, proc, ws, signalled, deleted, NoFt)
    ELSE LET info == active_executions[id]
             locals == [id |-> id, process |-> info.process,
                        websocket |-> info.websocket]
             sig == signalled \cup {<<by, info.process, "terminate">>}
             procs == Terminate(proc, info.process)
         IN  IF TerminateRaises(proc, info.process)
             THEN \* line 170 raises: lines 186-192, kill() is passed over
                  IF closed[info.websocket]
                  THEN FtOutcome("raised",
                                 ForceTerminateCleanup(active_executions, id),
                                 proc, ws, signalled,
                                 deleted \cup DeletedBy(active_executions, id, by),
                                 locals)
                  ELSE FtOutcome("ft_err_sent", active_executions, proc,
                                 Send(ws, info.websocket,
                                      Event("error", NoId, <<>>, by, 0)),
                                 signalled, deleted, locals)
             ELSE IF procs[info.process] = "alive"
                  THEN FtOutcome("ft_join", active_executions, procs, ws, sig,
                                 deleted, locals)
                  ELSE \* join(timeout=2) returns at once
                       ForceTerminateAfterJoin(locals, by, procs, sig)

\* ---- execute_and_stream --------------------------------------------------
\* Outcome of a segment of execute_and_stream, as for FtOutcome.
\*   start_sent    suspended in the send of execution_start
\*   join          inside process.join(timeout=self.timeout)
\*   getq          inside result_queue.get(timeout=1)
\*   stream        suspended in the send of an output event
\*   terminal_sent suspended in the send of execution_complete / error
\*   except_sent   suspended in the send of the except-block's error event
\*   done          returned;  raised: an exception left the method
ExecOutcome(at, reg, sinks, del, k) ==
    [at |-> at, reg |-> reg, ws |-> sinks, deleted |-> del, pos |-> k]

\* lines 147-157 taken when a send to e's own sink raised: the except-block's
\* send raises as well, the finally-block runs, the exception leaves
ExecSendRaised(e, reg, sinks, del) ==
    ExecOutcome("raised", FinallyCleanup(reg, execution_id[e]), sinks,
                del \cup DeletedBy(reg, execution_id[e], e), pos[e])

\* lines 147-152 taken for an exception that no send raised
ExecExcept(e, reg, sinks, del) ==
    IF closed[e]
    THEN ExecSendRaised(e, reg, sinks, del)
    ELSE ExecOutcome("except_sent", reg,
                     Send(sinks, e, Event("error", NoId, <<>>, e, 0)),
                     del, pos[e])

\* lines 118-145 from the k-th output event on: the next send
ExecContinue(e, res, k) ==
    LET evs == OutputEvents(res, e) IN
    IF closed[e]
    THEN ExecSendRaised(e, active_executions, ws, deleted)
    ELSE IF k <= Len(evs)
         THEN ExecOutcome("stream", active_executions,
                          Send(ws, e, evs[k]), deleted, k)
         ELSE ExecOutcome("terminal_sent", active_executions,
                          Send(ws, e, Event(CompletionType(res), NoId, <<>>, e, 0)),
                          deleted, k - 1)

\* The calls are interchangeable: they are made in the order of their names,
\* and a run has at most three of the four: two executions with one stop, or
\* one execution with two stops.
CalledInOrder(S, c) ==
    /\ \A d \in S : Earlier(d, c) => pc[d] # "idle"
    /\ \E d \in Coroutines \ {c} : pc[d] = "idle"

\* A later call of execute_and_stream is made while the earlier one is in
\* flight.
Overlapping(e) == \A d \in Execs : Earlier(d, e) => pc[d] \notin {"done", "raised"}

\* lines 68-77: generate the identifier, send execution_start; when the
\* send raises, lines 147-157: the except-block's send raises as well, the
\* finally-block runs with the new identifier, the exception leaves
Call(e, prog) ==
    /\ pc[e] = "idle"
    /\ blocked = None
    /\ CalledInOrder(Execs, e)
    /\ Overlapping(e)
    /\ program' = [program EXCEPT ![e] = prog]
    /\ LET id == MakeExecutionId(now, Pid) IN
       /\ execution_id' = [execution_id EXCEPT ![e] = id]
       /\ IF closed[e]
          THEN /\ pc' = [pc EXCEPT ![e] = "raised"]
               /\ ws' = ws
               /\ active_executions' = FinallyCleanup(active_executions, id)
               /\ deleted' = deleted \cup DeletedBy(active_executions, id, e)
          ELSE /\ pc' = [pc EXCEPT ![e] = "start_sent"]
               /\ ws' = Send(ws, e, Event("execution_start", id, <<>>, e, 0))
               /\ UNCHANGED <<active_executions, deleted>>
    /\ UNCHANGED <<now, blocked, result, pos, waitStart, proc, queue, ft,
                   closed, faulted, target, forExec, reqDeadline, ret,
                   signalled>>
    /\ UNCHANGED listing
    /\ UNCHANGED unsignallable

\* lines 79-99: register, start the process, enter join(timeout)
StartProcess(e) ==
    /\ pc[e] = "start_sent"
    /\ blocked = None
    /\ active_executions' = Register(active_executions, execution_id[e], e)
    /\ proc' = [proc EXCEPT ![e] = "alive"]
    /\ waitStart' = [waitStart EXCEPT ![e] = now]
    /\ blocked' = e
    /\ pc' = [pc EXCEPT ![e] = "join"]
    /\ UNCHANGED <<now, execution_id, program, result, pos, queue, ft, ws,
                   closed, faulted, target, forExec, reqDeadline, ret, signalled,
                   deleted>>
    /\ UNCHANGED listing
    /\ UNCHANGED unsignallable

\* lines 79-95 and 147-157: process.start() raises after the registration
StartProcessFails(e) ==
    /\ pc[e] = "start_sent"
    /\ blocked = None
    /\ LET reg == Register(active_executions, execution_id[e], e)
           o == ExecExcept(e, reg, ws, deleted)
       IN  /\ active_executions' = o.reg
           /\ ws' = o.ws
           /\ deleted' = o.deleted
           /\ pc' = [pc EXCEPT ![e] = o.at]
    /\ ~faulted
    /\ faulted' = TRUE
    /\ UNCHANGED <<now, blocked, execution_id, program, result, pos, waitStart,
                   proc, queue, ft, closed, target, forExec, reqDeadline,
                   ret, signalled>>
    /\ UNCHANGED listing
    /\ UNCHANGED unsignallable

\* what execute_and_stream does with an outcome of _force_terminate_process
\* (lines 104-105, then 147-157)
ExecAfterForceTerminate(e, o) ==
    IF o.at = "returned"
    THEN [o EXCEPT !.at = "done",
                   !.reg = FinallyCleanup(o.reg, execution_id[e]),
                   !.deleted = o.deleted \cup DeletedBy(o.reg, execution_id[e], e)]
    ELSE IF o.at = "raised"
    THEN LET x == ExecExcept(e, o.reg, o.ws, o.deleted)
         IN  [o EXCEPT !.at = x.at, !.reg = x.reg, !.ws = x.ws,
                       !.deleted = x.deleted]
    ELSE o

\* lines 99-145: join returns; timeout path, or the result and the first send
JoinReturn(e) ==
    /\ pc[e] = "join"
    /\ blocked = e
    /\ WaitOver(e)
    /\ IF proc[e] = "alive"
       THEN LET o == ExecAfterForceTerminate(e,
                         ForceTerminateBegin(execution_id[e], e))
            IN  /\ pc' = [pc EXCEPT ![e] = o.at]
                /\ active_executions' = o.reg
                /\ proc' = o.proc
                /\ ws' = o.ws
                /\ signalled' = o.signalled
                /\ deleted' = o.deleted
                /\ ft' = [ft EXCEPT ![e] = o.ft]
                /\ blocked' = IF o.at = "ft_join" THEN e ELSE None
                /\ waitStart' = [waitStart EXCEPT ![e] =
                                    IF o.at = "ft_join" THEN now ELSE @]
                /\ UNCHANGED <<result, pos>>
       ELSE IF queue[e]
       THEN LET res == execute_code_in_process(program[e])
                o == ExecContinue(e, res, 1)
            IN  /\ result' = [result EXCEPT ![e] = res]
                /\ pc' = [pc EXCEPT ![e] = o.at]
                /\ active_executions' = o.reg
                /\ ws' = o.ws
                /\ deleted' = o.deleted
                /\ pos' = [pos EXCEPT ![e] = o.pos]
                /\ blocked' = None
                /\ UNCHANGED <<proc, signalled, ft, waitStart>>
       ELSE /\ pc' = [pc EXCEPT ![e] = "getq"]
            /\ waitStart' = [waitStart EXCEPT ![e] = now]
            /\ UNCHANGED <<blocked, active_executions, proc, ws, signalled,
                           deleted, ft, result, pos>>
    /\ UNCHANGED <<now, execution_id, program, queue, closed, faulted, target, forExec,
                   reqDeadline, ret>>
    /\ UNCHANGED listing
    /\ UNCHANGED unsignallable

\* lines 108-145: result_queue.get(timeout=1) gives up; the first send
QueueGetTimeout(e) ==
    /\ pc[e] = "getq"
    /\ blocked = e
    /\ WaitOver(e)
    /\ LET o == ExecContinue(e, QueueEmptyResult, 1)
       IN  /\ result' = [result EXCEPT ![e] = QueueEmptyResult]
           /\ pc' = [pc EXCEPT ![e] = o.at]
           /\ active_executions' = o.reg
           /\ ws' = o.ws
           /\ deleted' = o.deleted
           /\ pos' = [pos EXCEPT ![e] = o.pos]
    /\ blocked' = None
    /\ UNCHANGED <<now, execution_id, program, waitStart, proc, queue, ft,
                   closed, faulted, target, forExec, reqDeadline, ret, signalled>>
    /\ UNCHANGED listing
    /\ UNCHANGED unsignallable

\* lines 118-145: resumed after the send of an output event; the next send
ResumeStream(e) ==
    /\ pc[e] = "stream"
    /\ blocked = None
    /\ LET o == ExecContinue(e, result[e], pos[e] + 1)
       IN  /\ pc' = [pc EXCEPT ![e] = o.at]
           /\ active_executions' = o.reg
           /\ ws' = o.ws
           /\ deleted' = o.deleted
           /\ pos' = [pos EXCEPT ![e] = o.pos]
    /\ UNCHANGED <<now, blocked, execution_id, program, result, waitStart,
                   proc, queue, ft, closed, faulted, target, forExec, reqDeadline,
                   ret, signalled>>
    /\ UNCHANGED listing
    /\ UNCHANGED unsignallable

\* lines 154-157: resumed after the last send; the finally-block, return
Finish(e) ==
    /\ pc[e] \in {"terminal_sent", "except_sent"}
    /\ blocked = None
    /\ active_executions' = FinallyCleanup(active_executions, execution_id[e])
    /\ deleted' = deleted \cup DeletedBy(active_executions, execution_id[e], e)
    /\ pc' = [pc EXCEPT ![e] = "done"]
    /\ UNCHANGED <<now, blocked, execution_id, program, result, pos, waitStart,
                   proc, queue, ft, ws, closed, faulted, target, forExec,
                   reqDeadline, ret, signalled>>
    /\ UNCHANGED listing
    /\ UNCHANGED unsignallable

\* the execution on whose behalf coroutine c acts
Behalf(c) == IF c \in Execs THEN c ELSE forExec[c]

\* lines 171-184: join(timeout=2) returns; kill if still alive; send timeout
ForceTerminateJoinReturn(c) ==
    /\ pc[c] = "ft_join"
    /\ blocked = c
    /\ WaitOver(c)
    /\ LET f == ForceTerminateAfterJoin(ft[c], Behalf(c), proc, signalled)
           o == IF c \in Execs THEN ExecAfterForceTerminate(c, f) ELSE f
       IN  /\ pc' = [pc EXCEPT ![c] = o.at]
           /\ active_executions' = o.reg
           /\ proc' = o.proc
           /\ ws' = o.ws
           /\ signalled' = o.signalled
           /\ deleted' = o.deleted
    /\ blocked' = None
    /\ UNCHANGED <<now, execution_id, program, result, pos, waitStart, queue,
                   ft, closed, faulted, target, forExec, reqDeadline, ret>>
    /\ UNCHANGED listing
    /\ UNCHANGED unsignallable

\* lines 194-197: resumed after the send; the finally-block; back in the
\* caller: execute_and_stream returns through its own finally-block (lines
\* 105, 154-157), stop_execution returns True (line 205)
ForceTerminateResume(c) ==
    /\ pc[c] \in {"ft_sent", "ft_err_sent"}
    /\ blocked = None
    /\ LET reg == ForceTerminateCleanup(active_executions, ft[c].id)
           del == deleted \cup DeletedBy(active_executions, ft[c].id, Behalf(c))
       IN  IF c \in Execs
           THEN /\ active_executions' = FinallyCleanup(reg, execution_id[c])
                /\ deleted' = del \cup DeletedBy(reg, execution_id[c], c)
                /\ ret' = ret
           ELSE /\ active_executions' = reg
                /\ deleted' = del
                /\ ret' = [ret EXCEPT ![c] = TRUE]
    /\ pc' = [pc EXCEPT ![c] = "done"]
    /\ UNCHANGED <<now, blocked, execution_id, program, result, pos, waitStart,
                   proc, queue, ft, ws, closed, faulted, target, forExec,
                   reqDeadline, signalled>>
    /\ UNCHANGED listing
    /\ UNCHANGED unsignallable

\* ---- stop_execution ------------------------------------------------------
\* the unit of e is alive and its deadline has not elapsed
LiveInTime(e) ==
    /\ pc[e] = "join"
    /\ proc[e] = "alive"
    /\ now < DeadlineMs(e, Timeout)

\* a stop_execution without its membership test
StopFindsAnything(reg, id) == TRUE

\* line 201: the membership test of stop_execution
StopFindsExecution(reg, id) == id \in DOMAIN reg

\* lines 199-205: stop_execution(id), called by s on behalf of execution `by`
stop_execution(s, id, by) ==
    /\ blocked = None
    /\ IF ~StopFindsExecution(active_executions, id)
       THEN /\ ret' = [ret EXCEPT ![s] = FALSE]
            /\ pc' = [pc EXCEPT ![s] = "done"]
            /\ UNCHANGED <<blocked, active_executions, proc, ws, signalled,
                           deleted, ft, waitStart>>
       ELSE LET o == ForceTerminateBegin(id, by)
            IN  /\ pc' = [pc EXCEPT ![s] =
                             IF o.at = "returned" THEN "done" ELSE o.at]
                /\ ret' = [ret EXCEPT ![s] =
                             IF o.at = "returned" THEN TRUE ELSE @]
                /\ active_executions' = o.reg
                /\ proc' = o.proc
                /\ ws' = o.ws
                /\ signalled' = o.signalled
                /\ deleted' = o.deleted
                /\ ft' = [ft EXCEPT ![s] = o.ft]
                /\ blocked' = IF o.at = "ft_join" THEN s ELSE None
                /\ waitStart' = [waitStart EXCEPT ![s] =
                                    IF o.at = "ft_join" THEN now ELSE @]
    /\ UNCHANGED <<now, execution_id, program, result, pos, queue, closed, faulted>>
    /\ UNCHANGED listing
    /\ UNCHANGED unsignallable

\* the client has read e's identifier from its execution_start message
KnowsId(e) == \E i \in 1..Len(ws[e]) : ws[e][i].type = "execution_start"

\* A later call of stop_execution names the identifier of the earlier one.
SameTarget(s, id) == \A r \in Stoppers : Earlier(r, s) => target[r] = id

\* A coroutine calls stop_execution with e's identifier while the event loop
\* is free.
StopNow(s, e) ==
    /\ pc[s] = "idle"
    /\ CalledInOrder(Stoppers, s)
    /\ KnowsId(e)
    /\ SameTarget(s, execution_id[e])
    /\ target' = [target EXCEPT ![s] = execution_id[e]]
    /\ forExec' = [forExec EXCEPT ![s] = e]
    /\ reqDeadline' = reqDeadline
    /\ stop_execution(s, execution_id[e], e)

\* ... with an identifier that was never issued
StopUnknown(s) ==
    /\ pc[s] = "idle"
    /\ CalledInOrder(Stoppers, s)
    /\ SameTarget(s, NonexistentId)
    /\ target' = [target EXCEPT ![s] = NonexistentId]
    /\ UNCHANGED <<forExec, reqDeadline>>
    /\ stop_execution(s, NonexistentId, None)

\* A coroutine becomes ready to call stop_execution with e's identifier
\* while e's unit is alive and its deadline has not elapsed: the event loop
\* is inside e's join, the call has to wait for it.
RequestStop(s, e) ==
    /\ pc[s] = "idle"
    /\ CalledInOrder(Stoppers, s)
    /\ KnowsId(e)
    /\ SameTarget(s, execution_id[e])
    /\ LiveInTime(e)
    /\ target' = [target EXCEPT ![s] = execution_id[e]]
    /\ forExec' = [forExec EXCEPT ![s] = e]
    /\ reqDeadline' = [reqDeadline EXCEPT ![s] = DeadlineMs(e, Timeout)]
    /\ pc' = [pc EXCEPT ![s] = "requested"]
    /\ UNCHANGED <<now, blocked, active_executions, execution_id, program,
                   result, pos, waitStart, proc, queue, ft, ws, closed, faulted, ret,
                   signalled, deleted>>
    /\ UNCHANGED listing
    /\ UNCHANGED unsignallable

\* the requested call runs once the event loop is free
StopRequested(s) ==
    /\ pc[s] = "requested"
    /\ UNCHANGED <<target, forExec, reqDeadline>>
    /\ stop_execution(s, target[s], forExec[s])

\* ---- get_active_executions -----------------------------------------------
\* lines 207-209: a caller that holds the event loop lists the identifiers
GetActiveExecutions ==
    /\ blocked = None
    /\ listing = NoListing
    /\ listing' = List(Keys(active_executions))
    /\ UNCHANGED <<now, blocked, active_executions, pc, execution_id, program,
                   result, pos, waitStart, proc, queue, ft, ws, closed, faulted,
                   target, forExec, reqDeadline, ret, signalled, deleted,
                   unsignallable>>

\* the caller empties the list it was given (list.clear()); were the list the
\* registry's own object, the registry would be emptied with it
ClearListing ==
    /\ blocked = None
    /\ ~listing.mutated
    /\ listing.items # {}
    /\ listing' = [listing EXCEPT !.items = {}, !.mutated = TRUE]
    /\ active_executions' =
           IF listing.same THEN EmptyRegistry ELSE active_executions
    /\ UNCHANGED <<now, blocked, pc, execution_id, program, result, pos,
                   waitStart, proc, queue, ft, ws, closed, faulted, target,
                   forExec, reqDeadline, ret, signalled, deleted, unsignallable>>

\* ---- faults of the environment -------------------------------------------
\* The client of sink w goes away: every later send to w raises.  (Once the
\* execution that owns w has finished nothing is sent to w any more.)
Disconnect(w) ==
    /\ ~closed[w]
    /\ pc[w] \notin {"done", "raised"}
    /\ ~faulted
    /\ faulted' = TRUE
    /\ closed' = [closed EXCEPT ![w] = TRUE]
    /\ UNCHANGED <<now, blocked, active_executions, pc, execution_id, program,
                   result, pos, waitStart, proc, queue, ft, ws, target,
                   forExec, reqDeadline, ret, signalled, deleted>>
    /\ UNCHANGED listing
    /\ UNCHANGED unsignallable

\* os.kill on the live process p starts to fail: terminate() will raise.
\* (A live process is signalled only at the end of its own join(timeout);
\* the fault is placed on a unit that would never exit by itself.)
SignalFails(p) ==
    /\ proc[p] = "alive"
    /\ program[p].kind = "loop"
    /\ pc[p] = "join"
    /\ WaitOver(p)
    /\ ~faulted
    /\ faulted' = TRUE
    /\ unsignallable' = unsignallable \cup {p}
    /\ UNCHANGED <<now, blocked, active_executions, pc, execution_id, program,
                   result, pos, waitStart, proc, queue, ft, ws, closed, target,
                   forExec, reqDeadline, ret, signalled, deleted, listing>>

\* ---- specifications ------------------------------------------------------
\* Spec: every send succeeds and every process starts.
Next ==
    \/ TickSecond
    \/ TickMs
    \/ \E e \in Execs : \E prog \in Programs : Call(e, prog)
    \/ \E e \in Execs : StartProcess(e)
    \/ \E e \in Execs : ProcExit(e)
    \/ \E e \in Execs : QueuePutBlocks(e)
    \/ \E e \in Execs : JoinReturn(e)
    \/ \E e \in Execs : QueueGetTimeout(e)
    \/ \E e \in Execs : ResumeStream(e)
    \/ \E e \in Execs : Finish(e)
    \/ \E c \in Coroutines : ForceTerminateJoinReturn(c)
    \/ \E c \in Coroutines : ForceTerminateResume(c)
    \/ \E s \in Stoppers : \E e \in Execs : StopNow(s, e)
    \/ \E s \in Stoppers : StopUnknown(s)
    \/ \E s \in Stoppers : \E e \in Execs : RequestStop(s, e)
    \/ \E s \in Stoppers : StopRequested(s)

Spec == Init /\ [][Next]_vars

\* SpecFaults: a sink may disconnect, a process.start() may raise or
\* signalling a process may start to fail, once in a run.
NextFaults ==
    \/ Next
    \/ \E w \in Execs : Disconnect(w)
    \/ \E e \in Execs : StartProcessFails(e)
    \/ \E p \in Execs : SignalFails(p)

SpecFaults == Init /\ [][NextFaults]_vars

\* SpecListing: Spec with a caller of get_active_executions().
NextListing ==
    \/ Next
    \/ GetActiveExecutions
    \/ ClearListing

SpecListing == Init /\ [][NextListing]_vars

\* ---- what the claims speak about -----------------------------------------
IsTerminal(ev) == ev.type \in TerminalTypes

TerminalCount(events) ==
    Cardinality({i \in 1..Len(events) : IsTerminal(events[i])})

Finished(e) == pc[e] \in {"done", "raised"}
InFlight(e) == pc[e] \notin {"idle", "done", "raised"}
Registered(id) == id \in get_active_executions(active_executions)

\* C1: for every call of execute_and_stream, under any interleaving with
\* stop_execution calls and other executions, exactly one terminal event
\* (execution_complete, timeout or error) is sent for that execution: never
\* two or more, and one once the call has returned.
C1_ExactlyOneTerminal ==
    \A e \in Execs :
        /\ TerminalCount(ws[e]) <= 1
        /\ pc[e] = "done" => TerminalCount(ws[e]) = 1

\* C2: once a terminal event has been sent for an execution, no further
\* event of any type is sent for it: a terminal event is the last event of
\* its sink.
C2_TerminalIsLast ==
    \A e \in Execs : \A i \in 1..Len(ws[e]) :
        IsTerminal(ws[e][i]) => i = Len(ws[e])

\* C3: when execute_and_stream finishes on any path (normal completion,
\* failure of the submitted code, timeout, external stop, an unexpected
\* exception), the identifier it generated is not in the registry; and when
\* no execution is in flight, get_active_executions() is empty.
C3_DeregisteredOnEveryPath ==
    /\ [][\A e \in Execs :
            (~Finished(e) /\ Finished(e)') =>
                execution_id'[e] \notin get_active_executions(active_executions')]_vars
    /\ []((\A e \in Execs : ~InFlight(e)) =>
            get_active_executions(active_executions) = {})

\* C3 witness: one execution has finished by an exception after its process
\* had run, the other through a timeout, and the registry is empty.
C3_Witness ==
    \E e, d \in Execs :
        /\ pc[e] = "raised" /\ proc[e] = "exited"
        /\ pc[d] = "done"
        /\ \E i \in 1..Len(ws[d]) : ws[d][i].type = "timeout"
        /\ get_active_executions(active_executions) = {}

\* an execution is running: its unit was started and no terminal event has
\* been emitted for it
Running(e) == proc[e] # "new" /\ TerminalCount(ws[e]) = 0

\* C4: in every reachable state an execution's identifier is in the registry
\* (mapped to that execution's process) exactly while the execution is
\* running: from the start of its unit until its terminal event is emitted,
\* absent right after, never removed earlier.
C4_RegisteredIffRunning ==
    \A e \in Execs :
        Running(e) <=>
            /\ Registered(execution_id[e])
            /\ active_executions[execution_id[e]].process = e

\* C5: two submissions whose executions overlap in time on the same
\* PythonExecutor have different identifiers.
C5_DistinctIdentifiers ==
    \A e, d \in Execs :
        (e # d /\ InFlight(e) /\ InFlight(d)) => execution_id[e] # execution_id[d]

\* C6: every event caused by an execution A reaches only A's sink, and no
\* operation issued on behalf of A terminates another execution's process
\* or deletes another execution's registry entry.
C6_NoCrossTalk ==
    /\ \A w \in Execs : \A i \in 1..Len(ws[w]) : ws[w][i].by = w
    /\ \A x \in signalled \cup deleted : x[1] = x[2]

\* coroutine s enters stop_execution in this step
StopBegins(s) ==
    /\ pc[s] \in {"idle", "requested"}
    /\ pc'[s] \notin {"idle", "requested"}

\* C7: stop_execution(id) for an identifier that is not in the registry
\* (never issued, or already finished) returns False, sends no event,
\* terminates no process and leaves the registry unchanged.
C7_StopUnknownIsNoOp ==
    [][\A s \in Stoppers :
          (StopBegins(s) /\ ~Registered(target'[s])) =>
              /\ pc'[s] = "done"
              /\ ret'[s] = FALSE
              /\ ws' = ws
              /\ proc' = proc
              /\ signalled' = signalled
              /\ active_executions' = active_executions]_vars

\* C7 witness: a stop has returned False for the identifier of an execution
\* that has finished.
C7_Witness ==
    \E s \in Stoppers :
        /\ pc[s] = "done" /\ ret[s] = FALSE
        /\ forExec[s] \in Execs
        /\ pc[forExec[s]] = "done"

\* the sink holds a timeout event that carries the identifier
TimeoutSent(w, id) ==
    \E i \in 1..Len(ws[w]) :
        ws[w][i].type = "timeout" /\ ws[w][i].execution_id = id

\* C8: stop_execution(id) for an identifier that is in the registry returns
\* True, and when it returns a timeout event carrying the identifier has
\* been sent to the sink registered under it, the identifier is out of the
\* registry and the registered process is not alive.
C8_StopRunningReturnsTrue ==
    [][\A s \in Stoppers :
          /\ (StopBegins(s) /\ Registered(target'[s])) =>
                 /\ ft'[s].id = target'[s]
                 /\ pc'[s] = "done" => ret'[s] = TRUE
          /\ (ft[s].id # NoId /\ pc[s] # "done" /\ pc'[s] # pc[s]) =>
                 /\ pc'[s] = "done"
                 /\ ret'[s] = TRUE
                 /\ TimeoutSent(ft[s].websocket, target[s])'
                 /\ ~Registered(target[s])'
                 /\ proc'[ft[s].process] # "alive"]_vars

\* C8 witness: a stop that found its identifier has returned True.
C8_Witness ==
    \E s \in Stoppers : pc[s] = "done" /\ ret[s] = TRUE /\ ft[s].id = target[s]

\* C9: of two stop_execution calls on the same identifier, the one that
\* begins second (after the first has returned, or while the first is
\* suspended at a send) returns False, sends no event, and changes neither
\* the registry nor a process.
C9_SecondStopIsNoOp ==
    [][\A s, r \in Stoppers :
          (/\ s # r
           /\ StopBegins(s)
           /\ pc[r] \notin {"idle", "requested"}
           /\ target[r] = target'[s]) =>
              /\ pc'[s] = "done"
              /\ ret'[s] = FALSE
              /\ ws' = ws
              /\ proc' = proc
              /\ active_executions' = active_executions]_vars

\* C10: a stop_execution requested while the execution's unit is alive and
\* its deadline has not elapsed takes effect before the deadline: it returns
\* True, the timeout event is emitted before the configured timeout has
\* elapsed, and the unit is not alive afterwards.
C10_StopBeforeDeadline ==
    \A s \in Stoppers :
        (pc[s] = "done" /\ reqDeadline[s] >= 0) =>
            /\ ret[s] = TRUE
            /\ \E i \in 1..Len(ws[forExec[s]]) :
                  /\ ws[forExec[s]][i].type = "timeout"
                  /\ ws[forExec[s]][i].at < reqDeadline[s]
            /\ proc[forExec[s]] # "alive"

\* ---- the paths of one execution ----------------------------------------
\* the call returned at line 105: it never assigned `result`
TimedOut(e) == pc[e] = "done" /\ result[e] = NoResult

\* no stop_execution was given e's identifier and no other execution has it
Undisturbed(e) ==
    /\ \A s \in Stoppers : target[s] # execution_id[e]
    /\ \A d \in Execs \ {e} : execution_id[d] # execution_id[e]

EventTypes(events) == [i \in 1..Len(events) |-> events[i].type]

\* C11: when the unit is still alive at the end of the configured timeout,
\* the execution's events are one execution_start, zero or more stdout
\* lines, then exactly one timeout event (no execution_complete); the unit
\* is terminated and the identifier is out of the registry.
C11_TimeoutPath ==
    \A e \in Execs :
        (TimedOut(e) /\ Undisturbed(e)) =>
            LET n == Len(ws[e]) IN
            /\ n >= 2
            /\ ws[e][1].type = "execution_start"
            /\ \A i \in 2..(n - 1) : ws[e][i].type = "stdout"
            /\ ws[e][n].type = "timeout"
            /\ ws[e][n].execution_id = execution_id[e]
            /\ proc[e] = "exited"
            /\ ~Registered(execution_id[e])

\* C11 witness: an execution whose code ignores SIGTERM has timed out and
\* returned while another execution was in flight.
C11_Witness ==
    \E e, d \in Execs :
        /\ TimedOut(e) /\ Undisturbed(e)
        /\ program[e].kind = "stubborn"
        /\ InFlight(d)

\* the submitted code ran to its end without raising: it reached the put of
\* its success record (line 45)
RanToEnd(e) == program[e].kind \in {"ok", "okbig"} /\ queue[e]

\* C12: when the submitted code runs to its end without raising before the
\* deadline, whatever amount of output it produced, the execution's events
\* are one execution_start, then its output events, then one
\* execution_complete; there is no timeout and no error event.
C12_CompletesNormally ==
    \A e \in Execs :
        (pc[e] = "done" /\ RanToEnd(e) /\ Undisturbed(e)) =>
            EventTypes(ws[e]) =
                <<"execution_start">>
                    \o EventTypes(OutputEvents(execute_code_in_process(program[e]), e))
                    \o <<"execution_complete">>

\* the sink of e holds an output event
OutputRelayed(e) ==
    \E i \in 1..Len(ws[e]) : ws[e][i].type \in {"stdout", "stderr"}

\* C13: output is relayed while the unit is running and is not held back
\* until the unit finishes: once a unit that printed non-blank lines has run
\* to its end and exited, an output event has reached its sink.
C13_RelayedWhileRunning ==
    \A e \in Execs :
        (/\ proc[e] = "exited"
         /\ RanToEnd(e)
         /\ OutputEvents(execute_code_in_process(program[e]), e) # <<>>) =>
            OutputRelayed(e)

\* the submitted code raised an exception or left with a non-zero exit, and
\* execute_and_stream has its result (lines 107-116)
CodeFaulted(e) ==
    /\ program[e].kind \in {"raise", "noresult"}
    /\ result[e].status = "error"

\* the output events of what the code wrote before its fault
CapturedBeforeFault(e) ==
    LineEvents(SplitLines(program[e].stdout), "stdout", e)
        \o LineEvents(SplitLines(program[e].stderr), "stderr", e)

\* C14: when the submitted code raises an exception or exits non-zero, the
\* terminal event is execution_complete (carrying the failure outcome), not
\* an error event, and the lines captured before the fault have been sent as
\* output events before it.
C14_CodeFaultIsCompletion ==
    \A e \in Execs :
        (pc[e] = "done" /\ CodeFaulted(e) /\ Undisturbed(e)) =>
            EventTypes(ws[e]) =
                <<"execution_start">>
                    \o EventTypes(CapturedBeforeFault(e))
                    \o <<"execution_complete">>

\* the unit reported status error: the record of lines 54-58 is the result
UnitReportsError(e) ==
    /\ program[e].kind = "raise"
    /\ queue[e]
    /\ result[e].status = "error"

TypeCount(events, type) ==
    Cardinality({i \in 1..Len(events) : events[i].type = type})

\* C15: when the unit reports status error (syntactically invalid code), the
\* execution emits exactly one execution_start, followed by an error event,
\* and no execution_complete event.
C15_StatusErrorGivesErrorEvent ==
    \A e \in Execs :
        (pc[e] \in {"terminal_sent", "done"} /\ UnitReportsError(e)) =>
            /\ Len(ws[e]) >= 2
            /\ ws[e][1].type = "execution_start"
            /\ ws[e][2].type = "error"
            /\ TypeCount(ws[e], "execution_start") = 1
            /\ TypeCount(ws[e], "execution_complete") = 0

\* C15 witness: such an execution has returned.
C15_Witness ==
    \E e \in Execs :
        /\ pc[e] = "done" /\ UnitReportsError(e)
        /\ EventTypes(ws[e]) = <<"execution_start", "error">>

\* everything get_active_executions() could disturb: the registry, the
\* processes, the sinks, and the coroutines of the executor
ExecutorState ==
    <<active_executions, proc, queue, ws, pc, execution_id, result, pos, ft,
      ret, signalled, deleted>>

\* C16: get_active_executions() returns exactly the identifiers registered
\* at the moment of the call and changes nothing (registry, processes and
\* sinks are as before), and changing the returned list leaves the registry
\* as it is.
C16_ListingIsObservational ==
    [][/\ (listing = NoListing /\ listing' # NoListing) =>
              /\ listing'.items = DOMAIN active_executions
              /\ ExecutorState' = ExecutorState
       /\ (listing # NoListing /\ listing' # listing) =>
              ExecutorState' = ExecutorState]_vars

\* C16 witness: the caller has emptied a list that held an identifier, and
\* that identifier is still registered.
C16_Witness ==
    /\ listing.mutated
    /\ DOMAIN active_executions # {}
    /\ \E e \in Execs : pc[e] \in {"stream", "terminal_sent", "ft_sent"}

\* C17: no fault during an execution (a process that fails to start or to
\* terminate, a send that fails) leaves execute_and_stream or stop_execution
\* as an exception: each is turned into a terminal event and the call
\* returns.
C17_NoFaultEscapes ==
    /\ \A c \in Coroutines : pc[c] # "raised"
    /\ \A e \in Execs : pc[e] = "done" => TerminalCount(ws[e]) >= 1

\* kill() is issued for process p in this step
KillIssued(p) ==
    \E b \in Execs : <<b, p, "kill">> \in signalled' \ signalled

\* coroutine c enters _force_terminate_process for a registered identifier
ForceTerminateBegins(c) == ft[c] = NoFt /\ ft'[c] # NoFt

\* C18: termination has two ordered stages: every timeout or stop issues
\* terminate() first; kill() is issued only by a call that has issued
\* terminate() and found the process still alive after the grace wait, never
\* for a process that exited within the grace wait.
C18_TwoStageTermination ==
    [][/\ \A c \in Coroutines :
              ForceTerminateBegins(c) =>
                  /\ <<Behalf(c)', ft'[c].process, "terminate">> \in signalled'
                  /\ ~KillIssued(ft'[c].process)
       /\ \A p \in Execs :
              KillIssued(p) =>
                  \E c \in Coroutines :
                      /\ pc[c] = "ft_join" /\ blocked = c
                      /\ ft[c].process = p
                      /\ <<Behalf(c), p, "terminate">> \in signalled
                      /\ now >= DeadlineMs(c, GraceSeconds)
                      /\ proc[p] = "alive"]_vars

\* C18 witness: one process ignored SIGTERM and was killed after the grace
\* wait, another exited on terminate() and was not killed.
C18_Witness ==
    \E p, q \in Execs :
        /\ {<<p, p, "terminate">>, <<p, p, "kill">>} \subseteq signalled
        /\ <<q, q, "terminate">> \in signalled
        /\ <<q, q, "kill">> \notin signalled
        /\ proc[p] = "exited" /\ proc[q] = "exited"

\* C19: the identifier is registered before its unit is started: in no
\* reachable state is an execution's process alive while its identifier is
\* missing from the registry or mapped to another process, so a
\* stop_execution racing the start never misses a live unit.
C19_RegisteredBeforeStart ==
    \A e \in Execs :
        proc[e] = "alive" =>
            /\ Registered(execution_id[e])
            /\ active_executions[execution_id[e]].process = e

\* C19 witness: a stop was requested while the unit was alive, and the unit
\* is alive and registered.
C19_Witness ==
    \E e \in Execs : \E s \in Stoppers :
        /\ proc[e] = "alive"
        /\ pc[s] = "requested" /\ target[s] = execution_id[e]
        /\ Registered(execution_id[e])

\* ---- the lines of a text, by the positions of its newlines --------------
NewlinePositions(text) == {i \in 1..Len(text) : text[i] = NL}

LineStarts(text) ==
    IF text = <<>> THEN {}
    ELSE {1} \cup {i + 1 : i \in {j \in NewlinePositions(text) : j < Len(text)}}

\* the position after the last character of the line that starts at st
LineEnd(text, st) ==
    LET ends == {j \in NewlinePositions(text) : j >= st} \cup {Len(text) + 1}
    IN  CHOOSE j \in ends : \A k \in ends : j <= k

\* the n-th smallest element of a set of numbers
RECURSIVE Nth(_, _)
Nth(S, n) ==
    LET m == CHOOSE x \in S : \A y \in S : x <= y
    IN  IF n = 1 THEN m ELSE Nth(S \ {m}, n - 1)

TextLines(text) ==
    [n \in 1..Cardinality(LineStarts(text)) |->
        LET st == Nth(LineStarts(text), n)
        IN  SubSeq(text, st, LineEnd(text, st) - 1)]

IsBlank(line) == \A i \in 1..Len(line) : line[i] = SP

ExpectedLines(text) == SelectSeq(TextLines(text), LAMBDA l : ~IsBlank(l))

\* the contents of the events of one type, in the order of the sink
Contents(events, type) ==
    LET sel == SelectSeq(events, LAMBDA ev : ev.type = type)
    IN  [i \in 1..Len(sel) |-> sel[i].content]

\* the execution has sent execution_complete and returned
Completed(e) == pc[e] = "done" /\ result[e].status = "success"

StopReturned(s) == pc[s] \in {"done", "raised"} /\ ft[s] # NoFt

\* C21: forced termination does not depend on the path: on every exit of
\* execute_and_stream and stop_execution, also when terminate() raises, a
\* send raises or the process fails to start, a unit that may be alive has
\* been killed, so no unit is alive once its identifier is deregistered.
C21_NotAliveOnceDeregistered ==
    /\ \A e \in Execs :
           (Finished(e) \/ (proc[e] # "new" /\ ~Registered(execution_id[e]))) =>
               proc[e] # "alive"
    /\ \A s \in Stoppers : StopReturned(s) => proc[ft[s].process] # "alive"

\* execution a waits for its process to finish or for its deadline
Waiting(a) == pc[a] = "join" /\ ~WaitOver(a)

\* C22: waiting on one execution's unit blocks only that execution: while
\* a waits, a second execute_and_stream that is ready to go on after its
\* execution_start send, and a stop_execution that is ready to be called,
\* can take their step.
C22_WaitBlocksOnlyItself ==
    \A a \in Execs :
        Waiting(a) =>
            /\ \A d \in Execs \ {a} :
                   pc[d] = "start_sent" => ENABLED StartProcess(d)
            /\ \A s \in Stoppers :
                   pc[s] = "requested" => ENABLED StopRequested(s)

\* the unit of e never exits on its own
NeverExits(e) == program[e].kind \in {"loop", "stubborn"}

\* the clock at the call of execute_and_stream, as the identifier holds it
CalledAt(e) == execution_id[e][2]

\* seconds allowed beyond the configured timeout
ReturnSlack == 2

\* C23: for an execution whose unit never exits on its own (also one that
\* ignores terminate()), execute_and_stream returns, with the timeout event
\* sent, no later than the configured timeout plus 2 seconds after it was
\* called.
C23_ReturnsWithinBound ==
    [][\A e \in Execs :
          (NeverExits(e) /\ ~Finished(e) /\ Finished(e)') =>
              /\ TimeoutSent(e, execution_id[e])'
              /\ now' <= CalledAt(e) + (Timeout + ReturnSlack) * MsPerSecond]_vars

\* the unit exited before the deadline without a result record, and
\* execute_and_stream has given up waiting for one (lines 108-116)
ExitedWithoutResult(e) ==
    /\ program[e].kind = "noresult"
    /\ ~queue[e]
    /\ result[e] # NoResult

\* C24: when the unit exits before the deadline without delivering a result
\* record, the execution emits exactly one error event, no
\* execution_complete, no timeout and no output event, and its identifier
\* is deregistered.
C24_NoResultGivesError ==
    \A e \in Execs :
        (pc[e] = "done" /\ ExitedWithoutResult(e) /\ Undisturbed(e)) =>
            /\ EventTypes(ws[e]) = <<"execution_start", "error">>
            /\ ~Registered(execution_id[e])

\* C24 witness: such an execution has returned after the wait on the empty
\* queue, while another execution was in flight.
C24_Witness ==
    \E e, d \in Execs :
        /\ pc[e] = "done" /\ ExitedWithoutResult(e) /\ Undisturbed(e)
        /\ proc[e] = "exited"
        /\ InFlight(d)

====
